---- MODULE Spec2Model ----
(***************************************************************************)
(* State machine of the "New Flight" page (src/client/pages/New.tsx):      *)
(* the session loader, the selection toggle, the per-user field editor and *)
(* the submit handler with its POST response.                              *)
(*                                                                         *)
(* Encoding of JavaScript values:                                          *)
(*   - an optional object (User | undefined, string[] | undefined, a       *)
(*     navigation that has or has not happened, an array element that may  *)
(*     be out of range) is a sequence of length 0 (undefined) or 1;        *)
(*   - an optional string attribute is a string, Undefined standing for    *)
(*     the JavaScript value undefined (a property that is absent and a     *)
(*     property holding undefined read the same everywhere in the page);   *)
(*   - perUser is a function whose DOMAIN is the set of keys of the        *)
(*     Record, so "prevPU[username]" is truthy iff username \in DOMAIN.    *)
(***************************************************************************)
EXTENDS Integers, Sequences, FiniteSets, TLC

VARIABLES currentUser, allUsers, selectedUsernames, perUser, inflight,
          navigation, nEvents

vars == <<currentUser, allUsers, selectedUsernames, perUser, inflight,
          navigation, nEvents>>

-----------------------------------------------------------------------------
(* Bounds of the model *)

\* user events (a checkbox toggle, a field edit, a submit) handled in one
\* page session
MaxEvents == 4

-----------------------------------------------------------------------------
(* Value domains *)

Undefined == "<undefined>"

\* GET /users : every known username, in the order the server lists them
AllUsernames == <<"alice", "bob", "carol">>

Usernames == {AllUsernames[i] : i \in 1..Len(AllUsernames)}

\* GET /users/me : the User record of the session, an admin or not; bob is
\* listed second by GET /users, so the current user is not first everywhere
Users == [username : {"bob"}, isAdmin : BOOLEAN]

Fields == {"seat", "aircraftSide", "ticketClass", "purpose", "notes"}

SelectFields == {"seat", "aircraftSide", "ticketClass", "purpose"}

\* the values the <Select> options and the notes <textarea> can hand to
\* onChange; "" is the "Choose" option, resp. a cleared textarea
seatOptions == {"", "aisle"}

sideOptions == {"", "left"}

classOptions == {"", "business"}

purposeOptions == {"", "leisure"}

noteInputs == {"", "n1"}

OptionsOf(field) ==
    CASE field = "seat" -> seatOptions
      [] field = "aircraftSide" -> sideOptions
      [] field = "ticketClass" -> classOptions
      [] field = "purpose" -> purposeOptions
      [] field = "notes" -> noteInputs

\* what the raw form data can hold under the key notes__<username>
FormNotes == {Undefined, "n2"}

\* identifiers the creation endpoint hands out: for an array, one per traveler
\* record in submission order; for a single identifier, one of SingleIds
ArrayIds == <<5, 9, 7>>

SingleIds == {42}

-----------------------------------------------------------------------------
(* Helpers *)

Range(s) == {s[i] : i \in 1..Len(s)}

\* Array.prototype.filter(u => u !== username)
RECURSIVE FilterOut(_, _)
FilterOut(s, username) ==
    IF s = <<>> THEN <<>>
    ELSE IF Head(s) = username THEN FilterOut(Tail(s), username)
         ELSE <<Head(s)>> \o FilterOut(Tail(s), username)

\* Array.prototype.findIndex, 1-based; 0 stands for JavaScript's -1
RECURSIVE FindIndexFrom(_, _, _)
FindIndexFrom(s, x, i) ==
    IF i > Len(s) THEN 0
    ELSE IF s[i] = x THEN i
         ELSE FindIndexFrom(s, x, i + 1)

FindIndex(s, x) == FindIndexFrom(s, x, 1)

\* the object literal {} : no attribute set
EmptyPrefs == [f \in Fields |-> Undefined]

\* perUser[u]?.field
PrefOf(pu, u, field) == IF u \in DOMAIN pu THEN pu[u][field] ELSE Undefined

\* { ...prev, [username]: entry }
WithEntry(pu, username, entry) ==
    [k \in (DOMAIN pu) \cup {username} |-> IF k = username THEN entry ELSE pu[k]]

\* ids[i] : undefined (<<>>) when i is no index of ids
At(ids, i) == IF i \in 1..Len(ids) THEN <<ids[i]>> ELSE <<>>

-----------------------------------------------------------------------------
(* Rendering conditions: which controls exist in the current render *)

Mounted == navigation = <<>>

IsAdmin == currentUser # <<>> /\ currentUser[1].isAdmin

\* {currentUser?.isAdmin && allUsers && ( ...checkbox for every u of allUsers... )}
CheckboxShown(u) ==
    /\ IsAdmin
    /\ allUsers # <<>>
    /\ u \in Range(allUsers[1])

\* <TravelerFields username={u} .../> is rendered for u
TravelerFieldsShown(u) ==
    \/ /\ IsAdmin
       /\ allUsers # <<>>
       /\ u \in Range(selectedUsernames)
    \/ /\ currentUser # <<>>
       /\ ~currentUser[1].isAdmin
       /\ u = currentUser[1].username

-----------------------------------------------------------------------------
(* Initial state: the useState initialisers *)

Init ==
    /\ currentUser = <<>>
    /\ allUsers = <<>>
    /\ selectedUsernames = <<>>
    /\ perUser = [u \in {} |-> EmptyPrefs]
    /\ inflight = {}
    /\ navigation = <<>>
    /\ nEvents = 0

-----------------------------------------------------------------------------
(* Session loader *)

\* API.get('/users/me').then(me => ...)
LoadMe(me) ==
    /\ Mounted
    /\ currentUser = <<>>
    /\ currentUser' = <<me>>
    /\ selectedUsernames' = <<me.username>>
    /\ perUser' = WithEntry(perUser, me.username,
                            IF me.username \in DOMAIN perUser
                            THEN perUser[me.username] ELSE EmptyPrefs)
    /\ UNCHANGED <<allUsers, inflight, navigation, nEvents>>

\* GET /users : the list of all known usernames
UsersResponses ==
    IF currentUser = <<>> THEN {}
    ELSE {AllUsernames}

\* API.get('/users').then(users => setAllUsers(users))
LoadUsers(users) ==
    /\ Mounted
    /\ IsAdmin
    /\ allUsers = <<>>
    /\ allUsers' = <<users>>
    /\ UNCHANGED <<currentUser, selectedUsernames, perUser, inflight, navigation, nEvents>>

-----------------------------------------------------------------------------
(* Selection toggle *)

\* ToggleSelection without the "keep at least one user selected" guard
ToggleSelectionUnguarded(prev, username) ==
    IF username \in Range(prev)
    THEN FilterOut(prev, username)
    ELSE Append(prev, username)

\* ToggleSelection with the filter predicate inverted (u === username)
ToggleSelectionKeepOnly(prev, username) ==
    IF username \in Range(prev)
    THEN IF Len(prev) = 1 THEN prev ELSE <<username>>
    ELSE Append(prev, username)

\* the updater handed to setSelectedUsernames
ToggleSelection(prev, username) ==
    IF username \in Range(prev)
    THEN IF Len(prev) = 1 THEN prev ELSE FilterOut(prev, username)
    ELSE Append(prev, username)

\* TemplateUser taking the current user only while it is selected
TemplateUserIfSelected(cu, prevPU, prev) ==
    IF cu # <<>> /\ cu[1].username \in Range(prev) THEN <<cu[1].username>>
    ELSE IF Len(prev) > 0 THEN <<prev[1]>>
    ELSE <<>>

\* the user whose preferences prefill a newly added one; <<>> when there is none
TemplateUser(cu, prevPU, prev) ==
    IF cu # <<>> /\ cu[1].username \in DOMAIN prevPU THEN <<cu[1].username>>
    ELSE IF Len(prev) > 0 THEN <<prev[1]>>
    ELSE <<>>

\* SeedPerUser that never seeds an entry
SeedPerUserNever(cu, prevPU, prev, username) == prevPU

\* SeedPerUser without the "if (prevPU[username]) return prevPU" early return
SeedPerUserAlways(cu, prevPU, prev, username) ==
    WithEntry(prevPU, username,
              IF cu # <<>> /\ cu[1].username \in DOMAIN prevPU
              THEN prevPU[cu[1].username]
              ELSE IF Len(prev) > 0 /\ prev[1] \in DOMAIN prevPU THEN prevPU[prev[1]]
              ELSE EmptyPrefs)

\* the updater handed to setPerUser when username is added to prev
SeedPerUser(cu, prevPU, prev, username) ==
    IF username \in DOMAIN prevPU THEN prevPU
    ELSE LET templateUser == TemplateUser(cu, prevPU, prev)
             template == IF templateUser # <<>> /\ templateUser[1] \in DOMAIN prevPU
                         THEN prevPU[templateUser[1]]
                         ELSE EmptyPrefs
         IN WithEntry(prevPU, username, template)

toggleSelected(username) ==
    /\ Mounted
    /\ CheckboxShown(username)
    /\ nEvents < MaxEvents
    /\ nEvents' = nEvents + 1
    /\ selectedUsernames' = ToggleSelection(selectedUsernames, username)
    /\ perUser' = IF username \in Range(selectedUsernames)
                  THEN perUser
                  ELSE SeedPerUser(currentUser, perUser, selectedUsernames, username)
    /\ UNCHANGED <<currentUser, allUsers, inflight, navigation>>

-----------------------------------------------------------------------------
(* Per-user field editor *)

\* value || undefined
OrUndefined(value) == IF value = "" THEN Undefined ELSE value

\* SetField storing the value as it comes, "" included
SetFieldRaw(prev, username, field, value) ==
    WithEntry(prev, username,
              [(IF username \in DOMAIN prev THEN prev[username] ELSE EmptyPrefs)
                  EXCEPT ![field] = value])

\* the updater handed to setPerUser by setPerUserField
SetField(prev, username, field, value) ==
    WithEntry(prev, username,
              [(IF username \in DOMAIN prev THEN prev[username] ELSE EmptyPrefs)
                  EXCEPT ![field] = OrUndefined(value)])

setPerUserField(username, field, value) ==
    /\ Mounted
    /\ TravelerFieldsShown(username)
    /\ nEvents < MaxEvents
    /\ nEvents' = nEvents + 1
    /\ perUser' = SetField(perUser, username, field, value)
    /\ UNCHANGED <<currentUser, allUsers, selectedUsernames, inflight, navigation>>

-----------------------------------------------------------------------------
(* Form assembler / submit *)

\* objectFromForm(event), as far as postFlight reads it beyond spreading it
\* into the payload: for each username the value under the key
\* notes__<username>, Undefined when the form data has no such key.  Only a
\* rendered <textarea name="notes__u"> can contribute the key.
FlightDatas ==
    {fd \in [Usernames -> FormNotes] :
        \A u \in Usernames : ~TravelerFieldsShown(u) => fd[u] = Undefined}

\* a ?? b  (form values are strings or absent, never null)
Coalesce(a, b) == IF a # Undefined THEN a ELSE b

\* NotesOf with the precedence reversed: the stored note first
NotesOfStoredFirst(flightData, pu, u) ==
    Coalesce(PrefOf(pu, u, "notes"), flightData[u])

\* (flightData as any)[noteKey] ?? perUser[u]?.notes
NotesOf(flightData, pu, u) == Coalesce(flightData[u], PrefOf(pu, u, "notes"))

\* UsernameOf that names the traveler whoever submits
UsernameOfAlways(cu, u) == u

\* username: currentUser?.isAdmin ? u : undefined
UsernameOf(cu, u) == IF cu # <<>> /\ cu[1].isAdmin THEN u ELSE Undefined

\* the object built for u by the callback of selectedUsernames.map
TravelerRecord(u, flightData, pu, cu) ==
    [username     |-> UsernameOf(cu, u),
     seat         |-> PrefOf(pu, u, "seat"),
     aircraftSide |-> PrefOf(pu, u, "aircraftSide"),
     ticketClass  |-> PrefOf(pu, u, "ticketClass"),
     purpose      |-> PrefOf(pu, u, "purpose"),
     notes        |-> NotesOf(flightData, pu, u)]

\* BuildUsers walking the selection from its end
RECURSIVE BuildUsersReversed(_, _, _, _)
BuildUsersReversed(sel, flightData, pu, cu) ==
    IF sel = <<>> THEN <<>>
    ELSE BuildUsersReversed(Tail(sel), flightData, pu, cu)
           \o <<TravelerRecord(Head(sel), flightData, pu, cu)>>

\* selectedUsernames.map(u => ...)
RECURSIVE BuildUsers(_, _, _, _)
BuildUsers(sel, flightData, pu, cu) ==
    IF sel = <<>> THEN <<>>
    ELSE <<TravelerRecord(Head(sel), flightData, pu, cu)>>
             \o BuildUsers(Tail(sel), flightData, pu, cu)

\* postFlight up to "await API.post(...)": the payload is posted and the call
\* keeps the values of the render it was created in
postFlight(flightData) ==
    /\ Mounted
    /\ nEvents < MaxEvents
    /\ nEvents' = nEvents + 1
    /\ inflight' = inflight \cup
          {[flightData        |-> flightData,
            users             |-> BuildUsers(selectedUsernames, flightData,
                                             perUser, currentUser),
            selectedUsernames |-> selectedUsernames,
            perUser           |-> perUser,
            currentUser       |-> currentUser]}
    /\ UNCHANGED <<currentUser, allUsers, selectedUsernames, perUser, navigation>>

\* POST /flights : a single identifier, or an array of identifiers, one per
\* traveler record, in submission order
Results(n) ==
    {[isArray |-> TRUE, scalar |-> 0, items |-> SubSeq(ArrayIds, 1, n)]}
      \cup {[isArray |-> FALSE, scalar |-> i, items |-> <<>>] : i \in SingleIds}

\* Array.isArray(result) ? result : [result]
ToIds(result) == IF result.isArray THEN result.items ELSE <<result.scalar>>

\* selectedUsernames.findIndex(u => u === currentUser?.username)
SubmitterIndex(sel, cu) ==
    FindIndex(sel, IF cu # <<>> THEN cu[1].username ELSE Undefined)

\* TargetId that always takes the first identifier
TargetIdFirst(result, sel, cu) == At(ToIds(result), 1)

\* idx >= 0 ? ids[idx] : ids[0]
TargetId(result, sel, cu) ==
    LET ids == ToIds(result)
        idx == SubmitterIndex(sel, cu)
    IN IF idx >= 1 THEN At(ids, idx) ELSE At(ids, 1)

\* postFlight from the POST response on: navigate(`/flights?id=${targetId}`)
postResolved(call, result) ==
    /\ call \in inflight
    /\ inflight' = inflight \ {call}
    /\ navigation' = <<[call     |-> call,
                        result   |-> result,
                        targetId |-> TargetId(result, call.selectedUsernames,
                                              call.currentUser)]>>
    /\ UNCHANGED <<currentUser, allUsers, selectedUsernames, perUser, nEvents>>

-----------------------------------------------------------------------------
(* Specification *)

Next ==
    \/ \E me \in Users : LoadMe(me)
    \/ \E users \in UsersResponses : LoadUsers(users)
    \/ \E username \in Usernames : toggleSelected(username)
    \/ \E username \in Usernames, field \in Fields :
          \E value \in OptionsOf(field) : setPerUserField(username, field, value)
    \/ \E flightData \in FlightDatas : postFlight(flightData)
    \/ \E call \in inflight :
          \E result \in Results(Len(call.users)) : postResolved(call, result)

Spec == Init /\ [][Next]_vars

-----------------------------------------------------------------------------
(* Vocabulary of the properties *)

\* the username of the session, once loaded
Me == currentUser[1].username

\* every postFlight call made so far: awaiting its response, or the one whose
\* response caused the navigation
Calls == inflight \cup {navigation[i].call : i \in 1..Len(navigation)}

IsAdminCall(c) == c.currentUser # <<>> /\ c.currentUser[1].isAdmin

\* the preferences with at least one attribute set
HasPrefs(entry) == \E f \in Fields : entry[f] # Undefined

-----------------------------------------------------------------------------
(* C1 *)

\* C1: once the session load has set the selection to [currentUser], the
\* selection holds at least one username, whatever toggleSelected calls follow.
C1_SelectionNeverEmpty ==
    currentUser # <<>> => Len(selectedUsernames) >= 1

\* toggles have shrunk the selection to a single username that is not the one
\* the session load put there
C1_Witness ==
    /\ CheckboxShown(Me)
    /\ Len(selectedUsernames) = 1
    /\ selectedUsernames[1] # Me

-----------------------------------------------------------------------------
(* C2 *)

\* C2 as stated: after the session load the current user's username is a
\* member of the selection.
C2_CurrentUserAlwaysSelected ==
    currentUser # <<>> => Me \in Range(selectedUsernames)

\* C2, amended: the current user's username leaves the selection only by a
\* toggleSelected of that very username by an admin while another username is
\* selected; toggling other usernames never removes it, and the selection of a
\* non-admin is always exactly [currentUser].
C2_CurrentUserLeavesOnlyByOwnToggle ==
    /\ [][(/\ currentUser # <<>>
           /\ Me \in Range(selectedUsernames)
           /\ Me \notin Range(selectedUsernames'))
          => (/\ IsAdmin
              /\ Len(selectedUsernames) >= 2
              /\ toggleSelected(Me))]_vars
    /\ []((currentUser # <<>> /\ ~IsAdmin) => selectedUsernames = <<Me>>)

\* the admin has deselected itself
C2_Witness ==
    /\ currentUser # <<>>
    /\ Me \notin Range(selectedUsernames)
    /\ Len(selectedUsernames) >= 1

-----------------------------------------------------------------------------
(* C3 *)

\* C3: every username in the selection has an entry in the preference store.
C3_SelectedHaveEntries ==
    Range(selectedUsernames) \subseteq DOMAIN perUser

\* a username added by toggleSelected is selected and has its entry
C3_Witness ==
    /\ currentUser # <<>>
    /\ \E u \in Range(selectedUsernames) : u # Me /\ u \in DOMAIN perUser

-----------------------------------------------------------------------------
(* C4 *)

\* C4: the users array of a posted payload has one traveler record per
\* selected username, the i-th built from the stored preferences of the i-th
\* selected username (and naming it, for an admin).
C4_OneRecordPerSelectedInOrder ==
    \A c \in Calls :
        /\ Len(c.users) = Len(c.selectedUsernames)
        /\ \A i \in 1..Len(c.users) :
              /\ \A f \in SelectFields :
                    c.users[i][f] = PrefOf(c.perUser, c.selectedUsernames[i], f)
              /\ IsAdminCall(c) => c.users[i].username = c.selectedUsernames[i]

\* a payload for two travelers whose stored preferences differ
C4_Witness ==
    \E c \in Calls :
        /\ Len(c.selectedUsernames) = 2
        /\ \E f \in SelectFields :
              /\ c.users[1][f] # c.users[2][f]
              /\ c.users[2][f] = c.perUser[c.selectedUsernames[2]][f]

-----------------------------------------------------------------------------
(* C5 *)

\* C5: a traveler record carries a username exactly when the submitter is an
\* admin, and then it is the selected username the record was built for.
C5_UsernameIffAdmin ==
    \A c \in Calls : \A i \in 1..Len(c.users) :
        IF IsAdminCall(c)
        THEN c.users[i].username = c.selectedUsernames[i]
        ELSE c.users[i].username = Undefined

\* a non-admin has submitted its own traveler record
C5_Witness ==
    \E c \in Calls :
        /\ c.currentUser # <<>>
        /\ ~c.currentUser[1].isAdmin
        /\ Len(c.users) = 1
        /\ c.users[1].username = Undefined

-----------------------------------------------------------------------------
(* C6 *)

\* C6: the navigation target is the identifier at the submitter's position in
\* the selection that built the payload; the first identifier when the
\* submitter is not in that selection; and a single identifier counts as a
\* one-element collection.  (No identifier at that position: undefined.)
C6_TargetAtSubmitterPosition ==
    navigation # <<>> =>
        LET n   == navigation[1]
            sel == n.call.selectedUsernames
            cu  == n.call.currentUser
            ids == IF n.result.isArray THEN n.result.items ELSE <<n.result.scalar>>
            pos == {i \in 1..Len(sel) : cu # <<>> /\ sel[i] = cu[1].username}
        IN /\ \A i \in pos :
                 (\A j \in pos : i <= j) =>
                     n.targetId = (IF i <= Len(ids) THEN <<ids[i]>> ELSE <<>>)
           /\ pos = {} =>
                 n.targetId = (IF Len(ids) >= 1 THEN <<ids[1]>> ELSE <<>>)

\* identifiers [5, 9] came back for the selection [alice, bob] submitted by
\* bob, and the page navigated to 9
C6_Witness ==
    /\ navigation # <<>>
    /\ navigation[1].call.selectedUsernames = <<"alice", "bob">>
    /\ navigation[1].call.currentUser # <<>>
    /\ navigation[1].call.currentUser[1].username = "bob"
    /\ navigation[1].result.isArray
    /\ navigation[1].result.items = <<5, 9>>
    /\ navigation[1].targetId = <<9>>

-----------------------------------------------------------------------------
(* C7 *)

\* the step adds u to the selection and u has no preference entry yet
AddsUnseeded(u) ==
    /\ toggleSelected(u)
    /\ u \notin Range(selectedUsernames)
    /\ u \notin DOMAIN perUser

\* C7 as stated: the new entry copies the current user's preferences if the
\* current user is selected, else the first selected user's, else it is empty.
C7_TemplateCurrentUserIfSelected ==
    [][\A u \in Usernames :
          AddsUnseeded(u) =>
              perUser'[u] =
                  (IF currentUser # <<>> /\ Me \in Range(selectedUsernames)
                   THEN perUser[Me]
                   ELSE IF Len(selectedUsernames) > 0
                        THEN perUser[selectedUsernames[1]]
                        ELSE EmptyPrefs)]_vars

\* C7, amended: the new entry copies the current user's preferences if the
\* current user has a preference entry, selected or not; else the first
\* selected user's; else it is empty.
C7_TemplateCurrentUserIfEntry ==
    [][\A u \in Usernames :
          AddsUnseeded(u) =>
              perUser'[u] =
                  (IF currentUser # <<>> /\ Me \in DOMAIN perUser
                   THEN perUser[Me]
                   ELSE IF Len(selectedUsernames) > 0
                           /\ selectedUsernames[1] \in DOMAIN perUser
                        THEN perUser[selectedUsernames[1]]
                        ELSE EmptyPrefs)]_vars

\* a username was added while the current user was deselected, and it got the
\* current user's preferences, which differ from the first selected user's
C7_Witness ==
    /\ currentUser # <<>>
    /\ Len(selectedUsernames) = 2
    /\ Me \notin Range(selectedUsernames)
    /\ Range(selectedUsernames) \subseteq DOMAIN perUser
    /\ perUser[selectedUsernames[2]] = perUser[Me]
    /\ perUser[selectedUsernames[1]] # perUser[Me]

-----------------------------------------------------------------------------
(* C8 *)

\* C8: the notes of the traveler record of u is the form value under
\* notes__u when the form data has one, and u's stored note only otherwise.
C8_FormNoteOverridesStored ==
    \A c \in Calls : \A i \in 1..Len(c.users) :
        LET u == c.selectedUsernames[i]
        IN IF c.flightData[u] # Undefined
           THEN c.users[i].notes = c.flightData[u]
           ELSE c.users[i].notes = PrefOf(c.perUser, u, "notes")

\* a typed note went out in place of a different stored note
C8_Witness ==
    \E c \in Calls : \E i \in 1..Len(c.users) :
        LET u == c.selectedUsernames[i]
        IN /\ c.flightData[u] = "n2"
           /\ c.perUser[u].notes = "n1"
           /\ c.users[i].notes = "n2"

-----------------------------------------------------------------------------
(* C9 *)

\* C9: setPerUserField(username, field, value) sets field of username to
\* value, or unsets it when value is "", and changes nothing else: not the
\* other attributes of username, not the other entries, not the selection; and
\* no seat, side, class or purpose is ever stored or submitted as "".
C9_SetFieldFrame ==
    /\ [][\A u \in Usernames, f \in Fields : \A v \in OptionsOf(f) :
             setPerUserField(u, f, v) =>
                 /\ u \in DOMAIN perUser'
                 /\ perUser'[u][f] = (IF v = "" THEN Undefined ELSE v)
                 /\ \A g \in Fields \ {f} : perUser'[u][g] = PrefOf(perUser, u, g)
                 /\ DOMAIN perUser' = DOMAIN perUser \cup {u}
                 /\ \A w \in DOMAIN perUser \ {u} : perUser'[w] = perUser[w]
                 /\ selectedUsernames' = selectedUsernames]_vars
    /\ [](\A u \in DOMAIN perUser : \A f \in SelectFields : perUser[u][f] # "")
    /\ [](\A c \in Calls : \A i \in 1..Len(c.users) :
             \A f \in SelectFields : c.users[i][f] # "")

\* two edits of one entry: the second left the attribute set by the first
C9_Witness ==
    /\ currentUser # <<>>
    /\ nEvents = 2
    /\ perUser[Me] = [EmptyPrefs EXCEPT !["seat"] = "aisle", !["notes"] = "n1"]

-----------------------------------------------------------------------------
(* C10 *)

\* C10: deselecting a username leaves the preference store unchanged, and
\* selecting a username that already has an entry leaves the store unchanged
\* too and appends the username to the selection.
C10_ToggleKeepsStoredPrefs ==
    [][\A u \in Usernames :
          toggleSelected(u) =>
              /\ u \in Range(selectedUsernames) => perUser' = perUser
              /\ (u \notin Range(selectedUsernames) /\ u \in DOMAIN perUser) =>
                    /\ perUser' = perUser
                    /\ selectedUsernames' = Append(selectedUsernames, u)]_vars

\* bob, loaded first, now stands after alice: it was deselected and
\* reselected, and still has the preferences it was given in between
C10_Witness ==
    /\ currentUser # <<>>
    /\ selectedUsernames = <<"alice", Me>>
    /\ HasPrefs(perUser[Me])
    /\ ~HasPrefs(perUser["alice"])

====
